---- MODULE Spec2Model ----
(***************************************************************************)
(* gigachad-list: a singly linked list whose nodes live in an append-only  *)
(* arena (src/src/lib.rs).  A List handle is one ListNodePtr; an Arena is  *)
(* a Vec of nodes; a ListNodePtr is a 1-based NonZeroU32 index with the    *)
(* value u32::MAX - 0xFF standing for "no node".                           *)
(*                                                                         *)
(* Numbers.  The pointer encoding lives at the top of the u32 range, which *)
(* is beyond the integers TLC computes with, so a u32 / usize is kept as   *)
(* two 16-bit limbs <<hi, lo>> (value hi * 2^16 + lo) and the arithmetic   *)
(* the code does on it (+1, -1, - 0xFF, <, as u32) is done on limbs.       *)
(*                                                                         *)
(* Arena contents.  A Vec of up to 2^32 nodes is kept run-length encoded:  *)
(* [fill, rest] is the Vec whose first `fill` entries are all FillNode and *)
(* whose remaining entries are the sequence `rest`.  fill > 0 is the state *)
(* reached by that many push_front calls, each on a fresh default handle.  *)
(***************************************************************************)
EXTENDS Integers, Sequences, FiniteSets

\* ------------------------------------------------------------ bounds
MaxNodes == 3
NumHandles == 2
MaxVal == 2

Handles == 1..NumHandles
Values == 1..MaxVal

\* ------------------------------------------------------------ u32 / usize
LIMB == 2^16

Zero == <<0, 0>>

\* std::u32::MAX
U32_MAX == <<LIMB - 1, LIMB - 1>>

Lt(a, b) == a[1] < b[1] \/ (a[1] = b[1] /\ a[2] < b[2])

Le(a, b) == a = b \/ Lt(a, b)

\* a + k for a small k >= 0 (usize: no wrap in the range the model reaches)
AddSmall(a, k) ==
    LET s == a[2] + k
    IN  <<a[1] + (s \div LIMB), s % LIMB>>

\* a - k for a small k >= 0 with a >= k
SubSmall(a, k) ==
    IF a[2] >= k THEN <<a[1], a[2] - k>> ELSE <<a[1] - 1, a[2] + LIMB - k>>

\* a - b as an integer, for b <= a < b + LIMB
Diff(a, b) == (a[1] - b[1]) * LIMB + a[2] - b[2]

\* `len as u32`: the low 32 bits of a usize
AsU32(n) == <<n[1] % LIMB, n[2]>>

\* ------------------------------------------------------------ ListNodePtr
\* 0xFF, the literal of MAX_U32
BAND == 255

MAX_U32 == SubSmall(U32_MAX, BAND)

MAX_USIZE == MAX_U32

new_unchecked(index) == index

INVALID == new_unchecked(MAX_U32)

\* mutant: the 1-based offset is not taken off
as_usize_noOffset(ptr) == ptr

as_usize(ptr) == SubSmall(ptr, 1)

\* ------------------------------------------------------------ Option / panic
None == <<"None">>

Some(v) == <<"Some", v>>

Panic == <<"panic">>

\* ------------------------------------------------------------ Vec<Node<T>>
Node(head, tail) == [head |-> head, tail |-> tail]

FillNode == Node(0, INVALID)

VecLen(vs) == AddSmall(vs.fill, Len(vs.rest))

\* mutant: the node is appended twice
VecPush_twice(vs, t) == [vs EXCEPT !.rest = Append(Append(@, t), t)]

\* mutant: the new node is inserted at the front, moving every other node
VecPush_front(vs, t) == [vs EXCEPT !.rest = <<t>> \o @]

\* mutant: the new node overwrites the last one
VecPush_overwrite(vs, t) ==
    [vs EXCEPT !.rest = IF @ = <<>> THEN <<t>> ELSE [@ EXCEPT ![Len(@)] = t]]

VecPush(vs, t) == [vs EXCEPT !.rest = Append(@, t)]

\* values[i]: the node at index i, or a panic (index out of bounds: ok is FALSE)
VecIndex(vs, i) ==
    IF Lt(i, vs.fill) THEN [ok |-> TRUE, node |-> FillNode]
    ELSE IF Lt(i, VecLen(vs)) THEN [ok |-> TRUE, node |-> vs.rest[Diff(i, vs.fill) + 1]]
    ELSE [ok |-> FALSE, node |-> FillNode]

\* ------------------------------------------------------------ Arena
\* mutant: the pointer is one past the position of the new node
add_ahead(vs, t) ==
    LET pushed == VecPush(vs, t)
        len == VecLen(pushed)
    IN  [values |-> pushed,
         ok |-> Lt(len, MAX_USIZE),
         ptr |-> new_unchecked(AsU32(AddSmall(len, 1)))]

\* mutant: the pointer is the 0-based index of the new node
add_zeroBased(vs, t) ==
    LET pushed == VecPush(vs, t)
        len == VecLen(pushed)
    IN  [values |-> pushed,
         ok |-> Lt(len, MAX_USIZE),
         ptr |-> new_unchecked(AsU32(SubSmall(len, 1)))]

\* mutant: the assertion lets one node more in (<= for <)
add_offByOne(vs, t) ==
    LET pushed == VecPush(vs, t)
        len == VecLen(pushed)
    IN  [values |-> pushed,
         ok |-> Le(len, MAX_USIZE),
         ptr |-> new_unchecked(AsU32(len))]

\* mutant: the assertion refuses the last node the pointer range has room for
add_strict(vs, t) ==
    LET pushed == VecPush(vs, t)
        len == VecLen(pushed)
    IN  [values |-> pushed,
         ok |-> Lt(AddSmall(len, 1), MAX_USIZE),
         ptr |-> new_unchecked(AsU32(len))]

\* Arena::add: push, then assert, then the pointer.  The push has happened
\* when the assertion fails.
add(vs, t) ==
    LET pushed == VecPush(vs, t)
        len == VecLen(pushed)
    IN  [values |-> pushed,
         ok |-> Lt(len, MAX_USIZE),
         ptr |-> new_unchecked(AsU32(len))]

\* mutant: the index is not checked against the length (get_unchecked): a
\* read past the end gives some node instead of a panic
data_unchecked(vs, ptr) ==
    [ok |-> TRUE, node |-> VecIndex(vs, as_usize(ptr)).node]

\* Arena::data: &self.values[ptr.as_usize()], a checked index
data(vs, ptr) == VecIndex(vs, as_usize(ptr))

\* ------------------------------------------------------------ List
\* mutant: the handle is compared with u32::MAX, not with INVALID
is_empty_max(node) == node = U32_MAX

is_empty(node) == node = INVALID

\* peek: the head of the node the handle points at
peek(node, vs) ==
    IF node # INVALID
    THEN LET n == data(vs, node) IN IF n.ok THEN Some(n.node.head) ELSE Panic
    ELSE None

\* mutant: no emptiness check before the node is read
pop_front_unchecked(node, vs) ==
    LET n == data(vs, node)
    IN  IF n.ok THEN [ret |-> Some(n.node.head), node |-> n.node.tail]
        ELSE [ret |-> Panic, node |-> node]

\* mutant: the handle is not advanced to the tail
pop_front_noAdvance(node, vs) ==
    IF is_empty(node) THEN [ret |-> None, node |-> node]
    ELSE LET n == data(vs, node)
         IN  IF n.ok THEN [ret |-> Some(n.node.head), node |-> node]
             ELSE [ret |-> Panic, node |-> node]

\* pop_front as a function: the returned option and the handle's new pointer
pop_front(node, vs) ==
    IF is_empty(node) THEN [ret |-> None, node |-> node]
    ELSE LET n == data(vs, node)
         IN  IF n.ok THEN [ret |-> Some(n.node.head), node |-> n.node.tail]
             ELSE [ret |-> Panic, node |-> node]

\* mutant: the new node does not link to the old head
push_front_noLink(node, vs, head) ==
    LET r == add(vs, Node(head, INVALID))
    IN  [values |-> r.values,
         ok |-> r.ok,
         node |-> IF r.ok THEN r.ptr ELSE node]

\* mutant: the new node links to itself
push_front_selfLink(node, vs, head) ==
    LET r == add(vs, Node(head, AsU32(AddSmall(VecLen(vs), 1))))
    IN  [values |-> r.values,
         ok |-> r.ok,
         node |-> IF r.ok THEN r.ptr ELSE node]

\* mutant: the new node is added but the handle is not moved to it
push_front_noAssign(node, vs, head) ==
    LET r == add(vs, Node(head, node))
    IN  [values |-> r.values, ok |-> r.ok, node |-> node]

\* push_front as a function: the arena after it, the handle's new pointer
\* and whether Arena::add returned (the handle is assigned only then)
push_front(node, vs, head) ==
    LET r == add(vs, Node(head, node))
    IN  [values |-> r.values,
         ok |-> r.ok,
         node |-> IF r.ok THEN r.ptr ELSE node]

\* list.iter(arena).collect(): the values of successive pop_front calls on a
\* copy of the handle, until one returns None (at most fuel of them)
RECURSIVE IterAll(_, _, _)
IterAll(node, vs, fuel) ==
    LET r == pop_front(node, vs)
    IN  IF fuel = 0 \/ r.ret = None \/ r.ret = Panic THEN <<>>
        ELSE <<r.ret[2]>> \o IterAll(r.node, vs, fuel - 1)

\* the pointers the handle takes on that walk
RECURSIVE ChainPtrs(_, _, _)
ChainPtrs(node, vs, fuel) ==
    LET r == pop_front(node, vs)
    IN  IF fuel = 0 \/ r.ret = None \/ r.ret = Panic THEN <<>>
        ELSE <<node>> \o ChainPtrs(r.node, vs, fuel - 1)

\* the handle's pointer after n calls of pop_front
RECURSIVE PopN(_, _, _)
PopN(node, vs, n) ==
    IF n = 0 THEN node ELSE PopN(pop_front(node, vs).node, vs, n - 1)

\* A list of calls on one handle, from pointer node in arena vs: what the pops
\* and peeks return, in call order.
RECURSIVE Calls(_, _, _)
Calls(ops, node, vs) ==
    IF ops = <<>> THEN <<>>
    ELSE LET o == Head(ops)
         IN  IF o[1] = "push"
             THEN LET r == push_front(node, vs, o[2])
                  IN  Calls(Tail(ops), r.node, r.values)
             ELSE IF o[1] = "peek"
             THEN <<peek(node, vs)>> \o Calls(Tail(ops), node, vs)
             ELSE LET r == pop_front(node, vs)
                  IN  <<r.ret>> \o Calls(Tail(ops), r.node, vs)

\* test::basics, from Arena::default() and List::default(): its calls, and
\* what it asserts they return
Basics ==
    << <<"peek">>, <<"pop">>,
       <<"push", 1>>, <<"peek">>, <<"push", 2>>, <<"peek">>, <<"push", 3>>, <<"peek">>,
       <<"pop">>, <<"pop">>,
       <<"push", 4>>, <<"push", 5>>,
       <<"pop">>, <<"pop">>,
       <<"pop">>, <<"pop">> >>

BasicsAsserted ==
    << None, None, Some(1), Some(2), Some(3), Some(3), Some(2),
       Some(5), Some(4), Some(1), None >>

\* no chain of the arena is longer than the arena
Fuel(vs) == Len(vs.rest) + 1

\* ------------------------------------------------------------ observation
\* The reference LIFO stack of a handle, head first, kept beside the code.
RefPush(st, v) == <<v>> \o st

RefPop(st) == IF st = <<>> THEN <<>> ELSE Tail(st)

\* The calls made on a handle since it was last empty, while they have the
\* shape "pushes, then pops": pushes in call order, pops as returned.
RunFresh == [pushes |-> <<>>, pops |-> <<>>, ok |-> TRUE]

RunNone == [pushes |-> <<>>, pops |-> <<>>, ok |-> FALSE]

RunPush(r, wasEmpty, v) ==
    IF wasEmpty THEN [RunFresh EXCEPT !.pushes = <<v>>]
    ELSE IF r.ok /\ r.pops = <<>> THEN [r EXCEPT !.pushes = Append(@, v)]
    ELSE RunNone

\* A handle that a pop leaves empty outside such a run is an empty handle to
\* start the next run from.
RunPop(r, ret, nowEmpty) ==
    IF r.ok /\ Len(r.pops) <= Len(r.pushes) THEN [r EXCEPT !.pops = Append(@, ret)]
    ELSE IF ~r.ok /\ nowEmpty THEN RunFresh
    ELSE r

RefTop(st) == IF st = <<>> THEN None ELSE Some(Head(st))

NoIter == [live |-> FALSE, node |-> INVALID]

NoObs == [from |-> 0, start |-> INVALID, ref |-> <<>>, yielded |-> <<>>,
          visited |-> <<>>, ended |-> FALSE]

Call(op, h, arg, ret) == [op |-> op, h |-> h, arg |-> arg, ret |-> ret]

NoCall == Call("new", 0, 0, None)

\* ------------------------------------------------------------ state
VARIABLES
    values,   \* Arena::values, as [fill, rest]
    list,     \* list[h]: the `node` field of handle h
    it,       \* the closure of iter: whether one is alive, and its own `self.node`
    last,     \* the last call: operation, handle, argument, what it returned
    stack,    \* stack[h]: the reference LIFO stack of handle h
    run,      \* run[h]: the pushes-then-pops run of handle h
    obs,      \* what the live iterator was started from and has yielded
    watch,    \* what is recorded beside the program: "calls" (last), "runs" (run)
              \* or "cross" (the calls made with the other arena)
    other,    \* the values of a second Arena, which no handle was built in
    pushed    \* the number of push_front calls that appended to values

vars == <<values, list, it, last, stack, run, obs, watch, other, pushed>>

\* The arena is new (Arena::default), or it already holds NearFull nodes:
\* MaxNodes - 1 below the most that Arena::add accepts.
NearFull == SubSmall(MAX_USIZE, MaxNodes)

\* the record of a call, when calls are recorded
Seen(c) == IF watch = "calls" THEN c ELSE NoCall

\* the run of a handle, when runs are recorded
Tracked(r) == IF watch = "runs" THEN r ELSE RunNone

Start ==
    /\ \E f \in {Zero, NearFull} : values = [fill |-> f, rest |-> <<>>]
    /\ list = [h \in Handles |-> INVALID]
    /\ it = NoIter
    /\ last = NoCall
    /\ stack = [h \in Handles |-> <<>>]
    /\ obs = NoObs
    /\ other = [fill |-> Zero, rest |-> <<>>]
    /\ pushed = 0

Init ==
    /\ Start
    /\ watch = "calls"
    /\ run = [h \in Handles |-> RunNone]

InitRun ==
    /\ Start
    /\ watch = "runs"
    /\ run = [h \in Handles |-> RunFresh]

\* mutant: handles standing at the same node move together, as if they were
\* references to one handle
set_node_aliased(lst, h, node) ==
    [g \in DOMAIN lst |-> IF lst[g] = lst[h] THEN node ELSE lst[g]]

\* self.node = ...: the assignment to the handle the method was called on
set_node(lst, h, node) == [lst EXCEPT ![h] = node]

\* list = List::default()
Default(h) ==
    /\ list' = [list EXCEPT ![h] = INVALID]
    /\ stack' = [stack EXCEPT ![h] = <<>>]
    /\ run' = [run EXCEPT ![h] = Tracked(RunFresh)]
    /\ last' = Seen(Call("default", h, 0, None))
    /\ UNCHANGED <<values, it, obs, watch, other, pushed>>

\* h = g (Copy) or h = g.clone()
Clone(g, h) ==
    /\ g # h
    /\ list' = [list EXCEPT ![h] = list[g]]
    /\ stack' = [stack EXCEPT ![h] = stack[g]]
    /\ run' = [run EXCEPT ![h] = Tracked(IF is_empty(list[g]) THEN RunFresh ELSE RunNone)]
    /\ last' = Seen(Call("clone", h, g, None))
    /\ UNCHANGED <<values, it, obs, watch, other, pushed>>

IsEmpty(h) ==
    /\ last' = Seen(Call("is_empty", h, 0, is_empty(list[h])))
    /\ UNCHANGED <<values, list, it, stack, run, obs, watch, other, pushed>>

Peek(h) ==
    /\ last' = Seen(Call("peek", h, 0, peek(list[h], values)))
    /\ UNCHANGED <<values, list, it, stack, run, obs, watch, other, pushed>>

\* push_front needs &mut Arena: no iterator (which borrows the arena) is alive.
PushFront(h, v) ==
    /\ ~it.live
    /\ Len(values.rest) < MaxNodes
    /\ LET r == push_front(list[h], values, v)
       IN  /\ values' = r.values
           /\ pushed' = pushed + 1
           /\ list' = set_node(list, h, r.node)
           /\ last' = Seen(Call("push_front", h, v, IF r.ok THEN None ELSE Panic))
           /\ stack' = [stack EXCEPT ![h] = IF r.ok THEN RefPush(@, v) ELSE @]
           /\ run' = [run EXCEPT ![h] =
                        Tracked(IF r.ok THEN RunPush(@, is_empty(list[h]), v) ELSE RunNone)]
    /\ UNCHANGED <<it, obs, watch, other>>

PopFront(h) ==
    /\ LET r == pop_front(list[h], values)
       IN  /\ list' = set_node(list, h, r.node)
           /\ last' = Seen(Call("pop_front", h, 0, r.ret))
           /\ stack' = [stack EXCEPT ![h] = RefPop(@)]
           /\ run' = [run EXCEPT ![h] = Tracked(RunPop(@, r.ret, is_empty(r.node)))]
    /\ UNCHANGED <<values, it, obs, watch, other, pushed>>

\* iter(self, arena): the closure owns a copy of the handle
iter(node) == [live |-> TRUE, node |-> node]

\* mutant: the closure pops the caller's handle (iter(&mut self))
iter_next_inPlace(c, h, lst, vs) ==
    LET r == pop_front(lst[h], vs)
    IN  [ret |-> r.ret, it |-> c, list |-> [lst EXCEPT ![h] = r.node]]

\* One call of the from_fn closure, `self.pop_front(arena)`, where self is the
\* closure's own copy c: what it returns, the closure after it, and the
\* handles lst of the caller (h is the handle iter was called on).
iter_next(c, h, lst, vs) ==
    LET r == pop_front(c.node, vs)
    IN  [ret |-> r.ret, it |-> [c EXCEPT !.node = r.node], list |-> lst]

Iter(h) ==
    /\ ~it.live
    /\ it' = iter(list[h])
    /\ obs' = [from |-> h, start |-> list[h], ref |-> stack[h], yielded |-> <<>>,
               visited |-> <<>>, ended |-> FALSE]
    /\ last' = Seen(Call("iter", h, 0, None))
    /\ UNCHANGED <<values, list, stack, run, watch, other, pushed>>

\* Iterator::next on the from_fn closure
IterNext ==
    /\ it.live
    /\ LET r == iter_next(it, obs.from, list, values)
       IN  /\ it' = r.it
           /\ list' = r.list
           /\ last' = Seen(Call("next", obs.from, 0, r.ret))
           /\ obs' = IF r.ret = None THEN [obs EXCEPT !.ended = TRUE]
                     ELSE IF r.ret = Panic THEN obs
                     ELSE [obs EXCEPT !.yielded = Append(@, r.ret[2]),
                                      !.visited = Append(@, it.node)]
    /\ UNCHANGED <<values, stack, run, watch, other, pushed>>

\* the iterator is dropped: the arena can be borrowed mutably again
IterDrop ==
    /\ it.live
    /\ it' = NoIter
    /\ obs' = NoObs
    /\ last' = Seen(Call("drop", obs.from, 0, None))
    /\ UNCHANGED <<values, list, stack, run, watch, other, pushed>>

Next ==
    \/ \E h \in Handles : Default(h)
    \/ \E g, h \in Handles : Clone(g, h)
    \/ \E h \in Handles : IsEmpty(h)
    \/ \E h \in Handles : Peek(h)
    \/ \E h \in Handles, v \in Values : PushFront(h, v)
    \/ \E h \in Handles : PopFront(h)
    \/ \E h \in Handles : Iter(h)
    \/ IterNext
    \/ IterDrop

Spec == Init /\ [][Next]_vars

SpecRun == InitRun /\ [][Next]_vars

\* ------------------------------------------------------------ a second arena
\* Nothing ties a List to its Arena: every method takes the arena as an
\* argument.  `other` is a second Arena of the same program, filled by a
\* handle of its own that is only pushed on; the handles of `list` are built
\* in `values` and are here also passed `other`.
InitCross ==
    /\ Start
    /\ watch = "cross"
    /\ run = [h \in Handles |-> RunNone]

\* the pointer of the handle that fills the second arena
other_node == IF other.rest = <<>> THEN INVALID ELSE AsU32(VecLen(other))

\* other_list.push_front(&mut other, 0)
PushOther ==
    /\ Len(other.rest) < MaxNodes
    /\ other' = push_front(other_node, other, 0).values
    /\ last' = NoCall
    /\ UNCHANGED <<values, list, it, stack, run, obs, watch, pushed>>

\* list.peek(&other) on a non-empty handle of the first arena; the call
\* record keeps the pointer the handle held
PeekOther(h) ==
    /\ ~is_empty(list[h])
    /\ last' = Call("peek_other", h, list[h], peek(list[h], other))
    /\ UNCHANGED <<values, list, it, stack, run, obs, watch, other, pushed>>

\* list.pop_front(&other) on a non-empty handle of the first arena
PopOther(h) ==
    /\ ~is_empty(list[h])
    /\ LET r == pop_front(list[h], other)
       IN  /\ list' = set_node(list, h, r.node)
           /\ last' = Call("pop_other", h, list[h], r.ret)
    /\ UNCHANGED <<values, it, stack, run, obs, watch, other, pushed>>

\* the calls that move a handle or grow an arena (queries and iterators, which
\* change neither, are left to Next), and the calls with the second arena
NextCross ==
    \/ \E h \in Handles : Default(h)
    \/ \E g, h \in Handles : Clone(g, h)
    \/ \E h \in Handles, v \in Values : PushFront(h, v)
    \/ \E h \in Handles : PopFront(h)
    \/ PushOther
    \/ \E h \in Handles : PeekOther(h)
    \/ \E h \in Handles : PopOther(h)

SpecCross == InitCross /\ [][NextCross]_vars

\* ------------------------------------------------------------ claims
\* the values handle h yields from where it stands, and the nodes it visits
Yield(h) == IterAll(list[h], values, Fuel(values))

Ptrs(h) == ChainPtrs(list[h], values, Fuel(values))

Suffix(sq, i) == SubSeq(sq, i, Len(sq))

\* C1: n calls of push_front (v1 first) on an empty handle followed by pops:
\* the i-th pop returns v(n+1-i), the handle is empty exactly from the n-th pop
\* on, and the pop after the n-th returns None.
RunReversed(h) ==
    LET r == run[h]
        n == Len(r.pushes)
        m == Len(r.pops)
    IN  r.ok =>
          /\ m <= n + 1
          /\ \A i \in 1..m :
               r.pops[i] = IF i <= n THEN Some(r.pushes[n + 1 - i]) ELSE None
          /\ (m >= n) <=> is_empty(list[h])

C1_PushPopReverse == \A h \in Handles : RunReversed(h)

C1_Witness ==
    \E h \in Handles :
        /\ run[h].ok
        /\ Len(run[h].pushes) >= 2
        /\ run[h].pushes[1] # run[h].pushes[2]
        /\ Len(run[h].pops) = Len(run[h].pushes) + 1

\* C2: a push_front or pop_front on one handle leaves every other handle's
\* pointer and the values that handle yields as they were, and two handles
\* that reach the same node yield the same values from it on.
OthersKept ==
    last'.op \in {"push_front", "pop_front"} =>
        \A g \in Handles \ {last'.h} :
            /\ list'[g] = list[g]
            /\ IterAll(list'[g], values', Fuel(values'))
                 = IterAll(list[g], values, Fuel(values))

SharedSuffix ==
    \A g, h \in Handles :
        \A i \in 1..Len(Ptrs(g)), j \in 1..Len(Ptrs(h)) :
            Ptrs(g)[i] = Ptrs(h)[j] => Suffix(Yield(g), i) = Suffix(Yield(h), j)

C2_HandlesIndependent == [][OthersKept]_vars /\ []SharedSuffix

\* two handles that share a suffix of their chains and have diverged, the
\* last call being a push or a pop on one of them
C2_Witness ==
    /\ last.op \in {"push_front", "pop_front"}
    /\ \E g \in Handles \ {last.h} :
        /\ list[g] # list[last.h]
        /\ ~is_empty(list[g])
        /\ ~is_empty(list[last.h])
        /\ \E i \in 1..Len(Ptrs(g)), j \in 1..Len(Ptrs(last.h)) :
               Ptrs(g)[i] = Ptrs(last.h)[j]

\* C3: the arena only grows at its end: every node stays at its index with
\* its value and its tail, and the length never decreases.
AppendOnly ==
    /\ values'.fill = values.fill
    /\ Len(values'.rest) >= Len(values.rest)
    /\ SubSeq(values'.rest, 1, Len(values.rest)) = values.rest

C3_ArenaAppendOnly == [][AppendOnly]_vars

\* nodes were appended after a pop, by the other handle
C3_Witness ==
    /\ Len(values.rest) >= 3
    /\ \E g, h \in Handles :
        /\ g # h
        /\ ~is_empty(list[g])
        /\ Len(Yield(h)) >= 2
        /\ last.op = "pop_front"
        /\ last.h = g

\* u32::MAX - 256, the most nodes the claims allow the arena
ClaimCap == SubSmall(U32_MAX, 256)

\* C4: in every reachable state, the state an insertion aborted in included,
\* the arena holds at most u32::MAX - 256 nodes.
C4_ArenaWithinCap == Le(VecLen(values), ClaimCap)

\* C5: push_front aborts exactly when the append makes the arena hold more
\* than u32::MAX - 256 nodes; a push that does not abort leaves the handle
\* with the pointer of the new last node.
C5_AbortIffOverCap ==
    last.op = "push_front" =>
        /\ last.ret = Panic <=> Lt(ClaimCap, VecLen(values))
        /\ last.ret = None =>
             /\ ~is_empty(list[last.h])
             /\ AddSmall(as_usize(list[last.h]), 1) = VecLen(values)

C5_Witness ==
    /\ last.op = "push_front"
    /\ last.ret = Panic
    /\ Len(values.rest) >= 2

\* C6: pop_front on an empty handle returns None and leaves the handle empty
\* and the arena as it was, each time it is called.
PopOnEmpty ==
    (last'.op = "pop_front" /\ is_empty(list[last'.h])) =>
        /\ last'.ret = None
        /\ is_empty(list'[last'.h])
        /\ values' = values

C6_PopEmptyIdempotent == [][PopOnEmpty]_vars

C6_Witness ==
    /\ last.op = "pop_front"
    /\ last.ret = None
    /\ is_empty(list[last.h])
    /\ Len(values.rest) >= 1

\* C7: peek returns None exactly on an empty handle and otherwise the value at
\* the head of the handle's chain; right after push_front(v) it returns v.
PeekOf(h) ==
    LET p == peek(list[h], values)
    IN  /\ (p = None) <=> is_empty(list[h])
        /\ (p = None) <=> (stack[h] = <<>>)
        /\ stack[h] # <<>> => p = Some(Head(stack[h]))

C7_PeekHead ==
    /\ \A h \in Handles : PeekOf(h)
    /\ last.op = "peek" => last.ret = peek(list[last.h], values)
    /\ (last.op = "push_front" /\ last.ret = None) =>
            peek(list[last.h], values) = Some(last.arg)

C7_Witness ==
    /\ last.op = "peek"
    /\ Len(stack[last.h]) >= 2
    /\ last.ret = Some(Head(stack[last.h]))
    /\ stack[last.h][1] # stack[last.h][2]

\* C8: iter on a handle whose chain holds k elements yields those k elements
\* head first, no node twice, and ends at the call after the k-th.
C8_IterYieldsChain ==
    it.live =>
        /\ Len(obs.yielded) <= Len(obs.ref)
        /\ obs.yielded = SubSeq(obs.ref, 1, Len(obs.yielded))
        /\ Cardinality({obs.visited[i] : i \in 1..Len(obs.visited)}) = Len(obs.visited)
        /\ obs.ended => Len(obs.yielded) = Len(obs.ref)
        /\ (Len(obs.yielded) = Len(obs.ref)) <=> is_empty(it.node)
        /\ last.op = "next" => last.ret # Panic

C8_Witness ==
    /\ it.live
    /\ obs.ended
    /\ Len(obs.yielded) >= 2
    /\ obs.yielded[1] # obs.yielded[2]

\* C9: starting and advancing an iterator changes no handle (and no node), so
\* while the caller's handle stands where iter was started, a pop_front on it
\* returns the element that was the head, and iterating again from it yields
\* the same sequence.
IterFrame ==
    last'.op \in {"iter", "next", "drop"} => (list' = list /\ values' = values)

IterRepeat ==
    (it.live /\ list[obs.from] = obs.start) =>
        /\ pop_front(list[obs.from], values).ret
             = IF obs.ref = <<>> THEN None ELSE Some(Head(obs.ref))
        /\ Yield(obs.from) = obs.ref
        /\ obs.ended => Yield(obs.from) = obs.yielded

C9_IterOnCopy == [][IterFrame]_vars /\ []IterRepeat

C9_Witness ==
    /\ last.op = "next"
    /\ obs.ended
    /\ Len(obs.yielded) >= 2
    /\ list[obs.from] = obs.start

\* C10: a default-constructed handle is Empty; is_empty answers whether the
\* pointer is INVALID; a push_front that returns leaves the handle NonEmpty; a
\* pop_front on a NonEmpty handle leaves it at the popped node's tail, which
\* is Empty exactly when the chain had one element.
EmptyAsAnswered ==
    /\ last.op = "is_empty" => (last.ret <=> list[last.h] = INVALID)
    /\ \A h \in Handles : (list[h] = INVALID) <=> (stack[h] = <<>>)

HandleStep ==
    LET h == last'.h
    IN  /\ last'.op = "default" => list'[h] = INVALID
        /\ (last'.op = "push_front" /\ last'.ret = None) => list'[h] # INVALID
        /\ (last'.op = "pop_front" /\ list[h] # INVALID) =>
             /\ list'[h] = data(values, list[h]).node.tail
             /\ (list'[h] = INVALID) <=> (Len(stack[h]) = 1)

C10_HandleStateMachine ==
    /\ \A h \in Handles : list[h] = INVALID
    /\ []EmptyAsAnswered
    /\ [][HandleStep]_vars

\* a pop took a handle from NonEmpty to Empty, another from NonEmpty to NonEmpty
C10_Witness ==
    /\ last.op = "pop_front"
    /\ last.ret # None
    /\ list[last.h] = INVALID
    /\ \E g \in Handles : list[g] # INVALID /\ Len(stack[g]) >= 2

\* a handle can be popped until it is Empty, and an Empty handle can be taken
\* to NonEmpty by a push_front that returns and back to Empty by a pop_front
CanCycle(h) ==
    /\ PopN(list[h], values, Fuel(values)) = INVALID
    /\ \A v \in Values :
         LET r == push_front(INVALID, values, v)
         IN  /\ r.ok
             /\ r.node # INVALID
             /\ pop_front(r.node, r.values).ret = Some(v)
             /\ pop_front(r.node, r.values).node = INVALID

\* C11 as stated: in every reachable state every handle can cycle from Empty
\* to NonEmpty by push_front and back, however many cycles there were.
C11_AlwaysCanCycle == \A h \in Handles : CanCycle(h)

\* C11 as amended: every handle can cycle while the arena holds fewer than
\* u32::MAX - 256 nodes; once it holds that many, every push_front aborts and
\* no handle leaves Empty by push_front again: each cycle takes a node of the
\* arena, which bounds the number of cycles.
C11_CanCycleBelowCap ==
    /\ Lt(VecLen(values), ClaimCap) => \A h \in Handles : CanCycle(h)
    /\ ~Lt(VecLen(values), ClaimCap) =>
         \A h \in Handles, v \in Values :
             LET r == push_front(list[h], values, v)
             IN  ~r.ok /\ r.node = list[h]

\* a handle is back at Empty by a pop, two chains having been started in the
\* arena from Empty
C11_Witness ==
    /\ last.op = "pop_front"
    /\ last.ret # None
    /\ list[last.h] = INVALID
    /\ Len(values.rest) >= 2
    /\ values.rest[1].tail = INVALID
    /\ values.rest[2].tail = INVALID
    /\ Lt(VecLen(values), ClaimCap)

\* C12: is_empty, peek, pop_front and iter leave the arena as it is; a
\* pop_front changes the pointer of no handle but the one it is called on (the
\* iterator's own copy, for a call made by the iterator), and the node it
\* popped stays where it was.
ReadOnlyCalls ==
    LET h == last'.h
    IN  /\ last'.op \in {"is_empty", "peek", "pop_front", "iter", "next"} =>
             /\ values' = values
             /\ VecLen(values') = VecLen(values)
        /\ last'.op \in {"is_empty", "peek", "iter", "next"} => list' = list
        /\ last'.op = "pop_front" =>
             /\ \A g \in Handles \ {h} : list'[g] = list[g]
             /\ list[h] # INVALID =>
                  /\ data(values', list[h]) = data(values, list[h])
                  /\ data(values', list[h]).ok

C12_ReadsKeepArena == [][ReadOnlyCalls]_vars

\* a pop moved one of two handles that stood at the same node
C12_Witness ==
    /\ last.op = "pop_front"
    /\ last.ret # None
    /\ \E g \in Handles \ {last.h} :
         /\ list[g] # INVALID
         /\ data(values, list[g]).node.tail = list[last.h]
         /\ data(values, list[g]).node.head = last.ret[2]

\* C14: whatever pushes and pops a handle went through, it stands where the
\* reference LIFO stack run beside it stands: a pop_front returns what the
\* stack's pop returns and leaves the stack's remainder, and is_empty and peek
\* answer as the stack does; the calls of test::basics return what it asserts.
AsRefStack(h) ==
    LET r == pop_front(list[h], values)
    IN  /\ Yield(h) = stack[h]
        /\ r.ret = RefTop(stack[h])
        /\ IterAll(r.node, values, Fuel(values)) = RefPop(stack[h])
        /\ is_empty(list[h]) <=> (stack[h] = <<>>)
        /\ peek(list[h], values) = RefTop(stack[h])

C14_RefinesStack ==
    /\ \A h \in Handles : AsRefStack(h)
    /\ Calls(Basics, INVALID, [fill |-> Zero, rest |-> <<>>]) = BasicsAsserted

\* a pop returned a value pushed after an earlier pop: the popped node and the
\* node appended before it both link to the node the handle is back at
C14_Witness ==
    /\ last.op = "pop_front"
    /\ last.ret # None
    /\ list[last.h] # INVALID
    /\ \E i \in 2..Len(values.rest) :
         /\ values.rest[i].tail = list[last.h]
         /\ values.rest[i - 1].tail = list[last.h]
         /\ values.rest[i].head = last.ret[2]
         /\ values.rest[i - 1].head # last.ret[2]
         /\ stack[last.h] # <<>>

\* C15: a step changes the arena only by a push_front call, which appends
\* exactly one node at the end, with head the pushed value and tail the
\* handle's pointer before the call, keeps every earlier node, and (when it
\* returns) leaves the handle at the pointer of that new last node and every
\* other handle alone; the number of nodes appended since construction is the
\* number of push_front calls made, over all handles.
Appended == Len(values.rest) = pushed

PushAppendsOne ==
    /\ Appended
    /\ Appended'
    /\ (values' # values \/ pushed' # pushed) =>
         LET h == last'.h
             n == Len(values'.rest)
         IN  /\ last'.op = "push_front"
             /\ pushed' = pushed + 1
             /\ values'.fill = values.fill
             /\ n = Len(values.rest) + 1
             /\ SubSeq(values'.rest, 1, n - 1) = values.rest
             /\ values'.rest[n] = Node(last'.arg, list[h])
             /\ VecLen(values') = AddSmall(VecLen(values), 1)
             /\ last'.ret # Panic => list'[h] = AsU32(VecLen(values'))
             /\ \A g \in Handles \ {h} : list'[g] = list[g]

C15_PushAppendsOne == [][PushAppendsOne]_vars

\* two handles pushed in turn: the second push linked its node to the pointer
\* its own handle held, not to the arena's last node
C15_Witness ==
    /\ last.op = "push_front"
    /\ last.ret # Panic
    /\ pushed = 3
    /\ list[last.h] = AsU32(VecLen(values))
    /\ values.rest[3].tail = AsU32(AddSmall(values.fill, 1))
    /\ values.rest[2].tail = INVALID
    /\ \E g \in Handles \ {last.h} : list[g] = AsU32(AddSmall(values.fill, 2))

\* C16: a pointer that Arena::add returns is the 1-based position of the
\* node it appended: not 0, not INVALID, below the 256 reserved values at the
\* top of u32, and as_usize of it is the index (one less) at which data
\* resolves that very node.  Stated of the add a push_front would make now on
\* the arena of every reachable state, and of the pointer the last returned
\* push_front left in its handle.
ReservedFrom == SubSmall(U32_MAX, BAND)

IsPosition(p, vs, t) ==
    /\ p # Zero
    /\ p # INVALID
    /\ Lt(p, ReservedFrom)
    /\ p = AsU32(VecLen(vs))
    /\ AddSmall(as_usize(p), 1) = VecLen(vs)
    /\ data(vs, p) = [ok |-> TRUE, node |-> t]

C16_PointerIsPosition ==
    /\ \A h \in Handles, v \in Values :
         LET t == Node(v, list[h])
             r == add(values, t)
         IN  r.ok => IsPosition(r.ptr, r.values, t)
    /\ (last.op = "push_front" /\ last.ret # Panic) =>
         /\ IsPosition(list[last.h], values, values.rest[Len(values.rest)])
         /\ values.rest[Len(values.rest)].head = last.arg

\* the last pointer add can return: the push that filled the arena to one node
\* short of INVALID's index returned, and the handle holds u32::MAX - 256
C16_Witness ==
    /\ last.op = "push_front"
    /\ last.ret # Panic
    /\ list[last.h] = SubSmall(INVALID, 1)
    /\ AddSmall(VecLen(values), 1) = MAX_USIZE

\* C17 as written: peek and pop_front on a non-empty handle of one arena,
\* called with another arena, return whatever the size of that arena.
CrossCall == last.op \in {"peek_other", "pop_other"}

C17_CrossNeverAborts == CrossCall => last.ret # Panic

\* C17: no check ties the handle to its arena, but the index is checked
\* against the length of the arena passed: the call panics, leaving the
\* handle where it was, exactly when that arena holds fewer nodes than the
\* handle's 1-based pointer; otherwise it returns the head of that arena's
\* node at the pointer's position, and pop_front moves the handle to that
\* node's tail.
C17_CrossBoundsChecked ==
    CrossCall =>
        LET p == last.arg
            inB == Le(p, VecLen(other))
            n == VecIndex(other, as_usize(p)).node
        IN  /\ p # INVALID
            /\ (last.ret = Panic) <=> ~inB
            /\ ~inB => list[last.h] = p
            /\ inB => /\ last.ret = Some(n.head)
                      /\ last.op = "peek_other" => list[last.h] = p
                      /\ last.op = "pop_other" => list[last.h] = n.tail

\* both outcomes: a pop with a non-empty second arena that is shorter than the
\* pointer panicked, while another handle of the first arena stands at a
\* position the second arena has
C17_Witness ==
    /\ last.op = "pop_other"
    /\ last.ret = Panic
    /\ other.rest # <<>>
    /\ list[last.h] = last.arg
    /\ \E g \in Handles \ {last.h} :
         /\ list[g] # INVALID
         /\ peek(list[g], other) = Some(0)
         /\ peek(list[g], values) # Some(0)

\* C18: every node's tail is INVALID or the pointer of a node at a strictly
\* smaller index of the arena than the node itself; so the walk from any
\* handle (and from a live iterator) ends at INVALID, visits no node twice
\* and is no longer than the arena.  The walk is given more steps than the
\* arena has nodes beyond its prefix of unlinked nodes, so that a longer
\* chain would show.
Position(i) == AsU32(AddSmall(values.fill, i))

TailsPointBack ==
    \A i \in 1..Len(values.rest) :
        LET t == values.rest[i].tail
        IN  t # INVALID => /\ t # Zero
                           /\ Lt(t, Position(i))
                           /\ data(values, t).ok

Walk(node) == ChainPtrs(node, values, MaxNodes + 2)

ChainFinite(node) ==
    LET w == Walk(node)
    IN  /\ Len(w) <= Len(values.rest)
        /\ Le(AddSmall(Zero, Len(w)), VecLen(values))
        /\ \A i, j \in 1..Len(w) : i < j => w[i] # w[j] /\ Lt(w[j], w[i])
        /\ PopN(node, values, Len(values.rest)) = INVALID

C18_Acyclic ==
    /\ TailsPointBack
    /\ \A h \in Handles : ChainFinite(list[h])
    /\ it.live => ChainFinite(it.node)

\* a chain through every node of the arena, ending at its first node
C18_Witness ==
    /\ Len(values.rest) = MaxNodes
    /\ \E h \in Handles :
         /\ Len(Walk(list[h])) = MaxNodes
         /\ list[h] = Position(MaxNodes)
         /\ values.rest[MaxNodes].tail = Position(MaxNodes - 1)
         /\ values.rest[1].tail = INVALID

\* C19: every handle made by default, copy, push_front and pop_front against
\* the one arena, and the copy a live iterator owns, holds INVALID or a
\* pointer whose 1-based position is between 1 and the arena's length; so
\* Arena::data is never reached with INVALID or with an index past the end,
\* and peek, pop_front and the iterator's next never abort, neither the calls
\* made nor the ones that could be made now.
ValidPtr(p) ==
    \/ p = INVALID
    \/ /\ p # Zero
       /\ Le(p, VecLen(values))
       /\ Lt(p, INVALID)
       /\ data(values, p).ok

NeverAborts(p) ==
    /\ peek(p, values) # Panic
    /\ pop_front(p, values).ret # Panic
    /\ ValidPtr(pop_front(p, values).node)

C19_PointersValid ==
    /\ \A h \in Handles : ValidPtr(list[h]) /\ NeverAborts(list[h])
    /\ it.live => ValidPtr(it.node) /\ NeverAborts(it.node)
    /\ last.op \in {"peek", "pop_front", "next"} => last.ret # Panic

\* a pop_front returned a value and left its handle non-empty in an arena that
\* an aborted push filled to the length at which INVALID's index is in range
C19_Witness ==
    /\ last.op = "pop_front"
    /\ last.ret # None
    /\ last.ret # Panic
    /\ list[last.h] # INVALID
    /\ VecLen(values) = MAX_USIZE
    /\ VecIndex(values, as_usize(INVALID)).ok

====
